---- MODULE Spec2Model ----
(***************************************************************************)
(* Dataset generation pipeline of Fine Format: the useDatasetGeneration    *)
(* hook (generateDataset / resetGeneration), the GeminiService stages it   *)
(* awaits, OpenRouterService.validateQAPairs, and the App buttons that     *)
(* invoke the hook.                                                        *)
(*                                                                         *)
(* One step of the model is one JavaScript task: the code that runs from   *)
(* one suspension point (await of a fetch or of a timer) to the next.      *)
(* Numbers with a fraction are kept as integer percentages (0.5 is 50).    *)
(***************************************************************************)
EXTENDS Integers, Sequences, FiniteSets, TLC

(* ------------------------------ bounds --------------------------------- *)
\* number of pairs a full generation reply carries
MaxPairs == 3
\* run contexts (closures of generateDataset) that can be alive at once
MaxRuns == 2
\* InferenceClient requests issued in one behaviour
MaxCalls == 6
\* number of files (or of urls) a run with sources is given
MaxUnits == 1
\* number of content units a corpus is built from
MaxContent == 2

(* ------------------------- program constants --------------------------- *)
batchSize == 5
DistractorCap == 5
MAX_TOTAL_CONTEXT_CHARS == 12000
\* '\n\n'.length
SeparatorLen == 2
GeneratedConfidence == 90
FallbackConfidence == 50
DefaultAccuracy == 80
DefaultRelevance == 90

\* absent / falsy text (undefined or the empty string)
Undef == 0
\* absent validationStatus
NoStatus == "undefined"
\* absent number
NoNum == -1
\* error state null
NullErr == "null"

ZeroYieldMessage == "Failed to generate any Q&A pairs. Please check your input files or try again."

StepNone == ""
StepInitializing == "Initializing..."
StepThemes == "Processing content and identifying themes..."
StepGaps == "Analyzing content for knowledge gaps..."
StepSources == "Searching for additional sources..."
StepGrounded == "Generating Q&A pairs from content..."
StepSynthetic == "Generating synthetic Q&A pairs..."
StepValidating == "Validating Q&A pairs..."
StepDistractors == "Generating incorrect answers..."
StepCompiling == "Compiling final dataset..."
StepComplete == "Dataset generation complete!"

(* ------------------------------ helpers -------------------------------- *)
Min(a, b) == IF a < b THEN a ELSE b

\* JavaScript a || b on texts
OrElse(a, b) == IF a = Undef THEN b ELSE a

\* Array.prototype.slice(from, to) with 0-based from, exclusive to
Slice(s, from, to) == SubSeq(s, from + 1, Min(to, Len(s)))

(* ------------------- replies of the Gemini proxy ----------------------- *)
\* A reply is a transport failure or a text.  A text either holds a
\* bracketed span (well formed or not) or none, and without one the whole
\* text either parses to a value that is not an array or does not parse.
GeminiError == [kind |-> "error", span |-> "none", whole |-> "invalid", items |-> <<>>]
TextGarbage == [kind |-> "text", span |-> "none", whole |-> "invalid", items |-> <<>>]
TextObject == [kind |-> "text", span |-> "none", whole |-> "object", items |-> <<>>]
TextBadSpan == [kind |-> "text", span |-> "invalid", whole |-> "invalid", items |-> <<>>]
TextArray(items) == [kind |-> "text", span |-> "valid", whole |-> "invalid", items |-> items]

GeminiFailures == {GeminiError, TextGarbage, TextBadSpan}

\* GeminiService.extractJSON
ExtractJSON(text) ==
    IF text.span = "valid" THEN [threw |-> FALSE, isArray |-> TRUE, items |-> text.items]
    ELSE IF text.span = "invalid" THEN [threw |-> TRUE, isArray |-> FALSE, items |-> <<>>]
    ELSE IF text.whole = "object" THEN [threw |-> FALSE, isArray |-> FALSE, items |-> <<>>]
    ELSE [threw |-> TRUE, isArray |-> FALSE, items |-> <<>>]

\* makeRequest followed by extractJSON: the value or a throw
RequestJSON(reply) ==
    IF reply.kind = "error" THEN [threw |-> TRUE, isArray |-> FALSE, items |-> <<>>]
    ELSE ExtractJSON(reply)

(* ------------------------------- strings ------------------------------- *)
(* A text is a list of runs of characters.  A run names where its          *)
(* characters come from (content unit k, and which part of its rendering), *)
(* the offset of its first character in that part, and its length; two     *)
(* texts are the same string when their runs are the same.                 *)
Piece(unit, part, len) ==
    IF len = 0 THEN <<>> ELSE <<[unit |-> unit, part |-> part, from |-> 0, len |-> len]>>

\* String.prototype.length
RECURSIVE Length(_)
Length(text) == IF text = <<>> THEN 0 ELSE Head(text).len + Length(Tail(text))

\* text.substring(0, n)
RECURSIVE Substring(_, _)
Substring(text, n) ==
    IF text = <<>> \/ n <= 0 THEN <<>>
    ELSE IF Head(text).len <= n
    THEN <<Head(text)>> \o Substring(Tail(text), n - Head(text).len)
    ELSE <<[Head(text) EXCEPT !.len = n]>>

\* texts.slice(k - 1).join('\n\n'); the separator after element k is its own
RECURSIVE JoinFrom(_, _)
JoinFrom(texts, k) ==
    IF k > Len(texts) THEN <<>>
    ELSE texts[k]
         \o (IF k < Len(texts) THEN Piece(k, "separator", SeparatorLen) ELSE <<>>)
         \o JoinFrom(texts, k + 1)

Join(texts) == JoinFrom(texts, 1)

(* ------------------------------- corpus -------------------------------- *)
(* A content unit is {type, name | url, content}; the model keeps the      *)
(* lengths of its strings.                                                 *)
\* `File: ${c.name}` or `URL: ${c.url}`
LabelLen(c) == (IF c.type = "file" THEN 6 ELSE 5) + c.nameLen

\* variant: the theme prompt takes the first 2000 characters of each unit
LabelledUnitClipped(k, c) ==
    Piece(k, "label", LabelLen(c)) \o Piece(k, "newline", 1) \o Piece(k, "content", Min(c.contentLen, 2000))

\* `${label}\n${c.content}` of identifyThemes
LabelledUnit(k, c) ==
    Piece(k, "label", LabelLen(c)) \o Piece(k, "newline", 1) \o Piece(k, "content", c.contentLen)

\* c.content of generateQAPairs
PlainUnit(k, c) == Piece(k, "content", c.contentLen)

\* variant: the combined content is embedded whole
TruncateNever(text) == text

\* if (combinedContent.length > MAX) combinedContent = combinedContent.substring(0, MAX)
TruncateToBudget(text) ==
    IF Length(text) > MAX_TOTAL_CONTEXT_CHARS THEN Substring(text, MAX_TOTAL_CONTEXT_CHARS) ELSE text

\* combinedContent of identifyThemes before the cut
ThemeCombinedContent(content) == Join([k \in 1..Len(content) |-> LabelledUnit(k, content[k])])

\* combinedContent of generateQAPairs before the cut
GenerationCombinedContent(content) == Join([k \in 1..Len(content) |-> PlainUnit(k, content[k])])

\* the corpus the theme prompt embeds
ThemeCorpus(content) == TruncateToBudget(ThemeCombinedContent(content))

\* the corpus the grounded generation prompt embeds (content.length > 0)
GenerationCorpus(content) == TruncateToBudget(GenerationCombinedContent(content))

\* lengths of the content strings the units are drawn with: short, such
\* that a labelled file is exactly at the budget, at the budget, beyond it
ContentLens == {50, MAX_TOTAL_CONTEXT_CHARS - 12, MAX_TOTAL_CONTEXT_CHARS, 20000}

\* a file named like "a.txt" or a url of 20 characters
Units == {[type |-> "file", nameLen |-> 5, contentLen |-> n] : n \in ContentLens}
         \cup {[type |-> "url", nameLen |-> 20, contentLen |-> n] : n \in ContentLens}

Contents == UNION {[1..n -> Units] : n \in 0..MaxContent}

(* --------------------------- identifyThemes ---------------------------- *)
EmptyThemes == [isArray |-> TRUE, items |-> <<>>]

\* the value identifyThemes resolves to
IdentifyThemes(reply) ==
    LET v == RequestJSON(reply) IN
    IF v.threw THEN EmptyThemes ELSE [isArray |-> v.isArray, items |-> v.items]

ThemeReplies == GeminiFailures \cup {TextObject, TextArray(<<>>), TextArray(<<"t1">>)}

(* --------------------------- generateQAPairs --------------------------- *)
\* an entry of a generation reply; tag 1 for the grounded call, 2 for the
\* synthetic call
GenEntry(tag, k) == [user |-> 10 * tag + k, model |-> 100 + 10 * tag + k,
                     question |-> Undef, answer |-> Undef]

GenItems(tag, n) == [k \in 1..n |-> GenEntry(tag, k)]

\* an entry under the other pair of keys the code accepts
AltEntry(tag, k) == [user |-> Undef, model |-> Undef,
                     question |-> 10 * tag + k, answer |-> 100 + 10 * tag + k]

\* an entry with a question and no answer under either key
NoAnswerEntry(tag, k) == [user |-> 10 * tag + k, model |-> Undef,
                          question |-> Undef, answer |-> Undef]

\* a reply of two entries: one well formed, one lacking its answer
MixedItems(tag) == <<AltEntry(tag, 1), NoAnswerEntry(tag, 2)>>

\* a generation reply fails, is no array, or is an array of no, one or
\* MaxPairs well-formed entries, or the mixed array
GenReplies(tag) ==
    GeminiFailures \cup {TextObject} \cup {TextArray(GenItems(tag, n)) : n \in {0, 1, MaxPairs}}
    \cup {TextArray(MixedItems(tag))}

\* variant: every generated pair is tagged as coming from the content
QAPairOfAlwaysOriginal(entry, nContent) ==
    [question |-> OrElse(entry.user, entry.question),
     answer |-> OrElse(entry.model, entry.answer),
     isCorrect |-> TRUE,
     confidence |-> GeneratedConfidence,
     source |-> "original",
     validationStatus |-> NoStatus,
     validationConfidence |-> NoNum]

QAPairOf(entry, nContent) ==
    [question |-> OrElse(entry.user, entry.question),
     answer |-> OrElse(entry.model, entry.answer),
     isCorrect |-> TRUE,
     confidence |-> GeneratedConfidence,
     source |-> IF nContent > 0 THEN "original" ELSE "synthetic",
     validationStatus |-> NoStatus,
     validationConfidence |-> NoNum]

\* the list generateQAPairs resolves to once its request is answered
GenerateQAPairs(nContent, reply) ==
    LET v == RequestJSON(reply) IN
    IF v.threw THEN <<>>
    ELSE IF v.isArray THEN [k \in 1..Len(v.items) |-> QAPairOf(v.items[k], nContent)]
    ELSE <<>>

(* ------------------- OpenRouterService.validateQAPairs ------------------ *)
\* What the judge says of item k of a sub-batch.  The accuracy grows with
\* the item number so that verdicts of different items differ.
JudgedAccuracy(k) == 60 + k

Verdict(policy, k) ==
    [index |-> k,
     isValid |-> IF policy = "accept" THEN "true"
                 ELSE IF policy = "rejectOdd" THEN (IF k % 2 = 1 THEN "false" ELSE "true")
                 ELSE "absent",
     hasAccuracy |-> policy # "untyped",
     accuracy |-> IF policy = "untyped" THEN NoNum
                  ELSE IF policy = "overrated" THEN 100 + JudgedAccuracy(k)
                  ELSE JudgedAccuracy(k),
     reasoning |-> IF policy = "untyped" THEN "" ELSE "judged"]

Ascending(n) == [k \in 1..n |-> k]
Descending(n) == [k \in 1..n |-> n + 1 - k]

Verdicts(policy, idx) == [j \in 1..Len(idx) |-> Verdict(policy, idx[j])]

ValError == [kind |-> "error", entries |-> <<>>]
ValNoArray == [kind |-> "noarray", entries |-> <<>>]
ValBadJSON == [kind |-> "badjson", entries |-> <<>>]
ValArray(entries) == [kind |-> "array", entries |-> entries]

\* replies to the request for a sub-batch of n items: a failed call, a text
\* without an array, an array that does not parse, and arrays that list
\* every item in order (typed or untyped), in reverse order, one item
\* short, one item too many, with accuracies above 1.0, or nothing
ValReplies(n) ==
    {ValError, ValNoArray, ValBadJSON,
     ValArray(Verdicts("rejectOdd", Ascending(n))),
     ValArray(Verdicts("untyped", Ascending(n))),
     ValArray(Verdicts("rejectOdd", Descending(n))),
     ValArray(Verdicts("rejectOdd", Ascending(n - 1))),
     ValArray(Verdicts("rejectOdd", Ascending(n + 1))),
     ValArray(Verdicts("overrated", Ascending(n))),
     ValArray(<<>>)}

FallbackResult(pos, why) ==
    [pairId |-> pos, isValid |-> TRUE, confidence |-> FallbackConfidence,
     reasoning |-> why, factualAccuracy |-> FallbackConfidence,
     relevanceScore |-> FallbackConfidence]

\* pos is the 0-based position the result is filed under
JudgedResult(pos, e) ==
    [pairId |-> pos,
     isValid |-> IF e.isValid = "true" THEN TRUE ELSE IF e.isValid = "false" THEN FALSE ELSE TRUE,
     confidence |-> IF e.hasAccuracy THEN e.accuracy ELSE DefaultAccuracy,
     reasoning |-> IF e.reasoning = "" THEN "Validated" ELSE e.reasoning,
     factualAccuracy |-> IF e.hasAccuracy THEN e.accuracy ELSE DefaultAccuracy,
     relevanceScore |-> DefaultRelevance]

\* the results one loop iteration pushes: i is the 0-based offset of the
\* sub-batch, n its number of pairs
BatchResults(i, n, reply) ==
    IF reply.kind = "array"
    THEN [idx \in 1..Len(reply.entries) |-> JudgedResult(i + idx - 1, reply.entries[idx])]
    ELSE IF reply.kind = "noarray"
    THEN [idx \in 1..n |-> FallbackResult(i + idx - 1, "Validation parsing failed")]
    ELSE [idx \in 1..n |-> FallbackResult(i + idx - 1, "Validation error")]

\* number of pairs of the sub-batch at offset i
BatchLen(i, total) == Min(i + batchSize, total) - i

(* --------------------- generateIncorrectAnswers ------------------------ *)
\* the slice of correct pairs the prompt lists
PairsToProcess(correctPairs) == Slice(correctPairs, 0, DistractorCap)

\* variant: the early return is missing
AlwaysAsks(correctPairs) == FALSE

\* if (correctPairs.length === 0) return [];
NoCorrectPairs(correctPairs) == Len(correctPairs) = 0

DistractorEntry(q) == [original_question |-> q, incorrect_answer |-> 900 + q]

\* replies: one distractor per listed pair, or only for the first, or with
\* an extra entry about a question that was never asked
DistractorReplies(listed) ==
    LET honest == [k \in 1..Len(listed) |-> DistractorEntry(listed[k].question)] IN
    GeminiFailures \cup {TextObject} \cup
    {TextArray(honest), TextArray(SubSeq(honest, 1, 1)), TextArray(Append(honest, DistractorEntry(99)))}

DistractorOf(res) ==
    [question |-> res.original_question,
     answer |-> res.incorrect_answer,
     isCorrect |-> FALSE,
     confidence |-> NoNum,
     source |-> "generated_distractor",
     validationStatus |-> NoStatus,
     validationConfidence |-> NoNum]

\* the list generateIncorrectAnswers resolves to once its request is answered
GenerateIncorrectAnswers(reply) ==
    LET v == RequestJSON(reply) IN
    IF v.threw THEN <<>>
    ELSE IF v.isArray THEN [k \in 1..Len(v.items) |-> DistractorOf(v.items[k])]
    ELSE <<>>

(* ------------------------ annotation and compile ----------------------- *)
\* allPairs.forEach of generateDataset: results are matched by position
Annotate(allPairs, validationResults) ==
    [k \in 1..Len(allPairs) |->
        IF k <= Len(validationResults)
        THEN [allPairs[k] EXCEPT
                 !.validationStatus = IF validationResults[k].isValid THEN "validated" ELSE "rejected",
                 !.validationConfidence = validationResults[k].confidence]
        ELSE allPairs[k]]

\* variant: a pair the validator rejected is marked as not correct
CompiledPairRejectedIncorrect(pair) ==
    [user |-> pair.question,
     model |-> pair.answer,
     isCorrect |-> pair.isCorrect /\ pair.validationStatus # "rejected",
     source |-> IF pair.source = "" THEN "original" ELSE pair.source,
     validationStatus |-> pair.validationStatus,
     validationConfidence |-> pair.validationConfidence]

CompiledPair(pair) ==
    [user |-> pair.question,
     model |-> pair.answer,
     isCorrect |-> pair.isCorrect,
     source |-> IF pair.source = "" THEN "original" ELSE pair.source,
     validationStatus |-> pair.validationStatus,
     validationConfidence |-> pair.validationConfidence]

\* variant: pairs the validator rejected are left out of the Dataset
FinalAllPairsValidOnly(allPairs, incorrectPairs) ==
    SelectSeq(allPairs, LAMBDA pair : pair.validationStatus # "rejected") \o incorrectPairs

\* variant: the distractors are listed before the generated pairs
FinalAllPairsDistractorsFirst(allPairs, incorrectPairs) == incorrectPairs \o allPairs

FinalAllPairs(allPairs, incorrectPairs) == allPairs \o incorrectPairs

\* variant: the distractor count is the number of pairs the prompt listed
CompileCountsListed(allPairs, incorrectPairs, themes, nFiles, nUrls) ==
    [qaPairs |-> [k \in 1..Len(FinalAllPairs(allPairs, incorrectPairs)) |->
                     CompiledPair(FinalAllPairs(allPairs, incorrectPairs)[k])],
     sourceFileCount |-> nFiles,
     sourceUrlCount |-> nUrls,
     identifiedThemes |-> themes,
     correctAnswerCount |-> Len(allPairs),
     incorrectAnswerCount |-> Len(PairsToProcess(allPairs))]

Compile(allPairs, incorrectPairs, themes, nFiles, nUrls) ==
    [qaPairs |-> [k \in 1..Len(FinalAllPairs(allPairs, incorrectPairs)) |->
                     CompiledPair(FinalAllPairs(allPairs, incorrectPairs)[k])],
     sourceFileCount |-> nFiles,
     sourceUrlCount |-> nUrls,
     identifiedThemes |-> themes,
     correctAnswerCount |-> Len(allPairs),
     incorrectAnswerCount |-> Len(incorrectPairs)]

(* ------------------------------- state --------------------------------- *)
VARIABLES
    \* useDatasetGeneration: the five useState cells
    isProcessing, processedData, currentStep, progress, error,
    \* the closures of generateDataset, one per slot, with their locals
    runs,
    \* number of InferenceClient requests issued so far
    calls,
    \* the arguments of the setProgress calls since the last call of
    \* generateDataset or resetGeneration
    progressSeq,
    \* the operation that made the last step
    lastOp,
    \* a GeminiService method called on its own: its arguments, where the
    \* call stands and what it built or returned
    svc,
    \* two runs of generateDataset, each in a hook of its own, that are fed
    \* the same replies
    twin,
    \* one invocation of a proxy function: the event, where the handler
    \* stands, the upstream calls it made and the responses it returned
    proxy

vars == <<isProcessing, processedData, currentStep, progress, error,
          runs, calls, progressSeq, lastOp, svc, twin, proxy>>

RunIds == 1..MaxRuns

\* processedData is a list of at most one Dataset; the empty list is null
NoData == <<>>

IdleRun ==
    [pc |-> "idle", nFiles |-> 0, nUrls |-> 0, gapFilling |-> FALSE, appendSources |-> FALSE,
     themes |-> EmptyThemes, qaPairs |-> <<>>, syntheticPairs |-> <<>>, allPairs |-> <<>>,
     i |-> 0, allResults |-> <<>>, valLog |-> <<>>, incorrectPairs |-> <<>>,
     log |-> <<>>, invoked |-> <<>>, dataAtStart |-> NoData]

\* allContent.length
NContent(run) == run.nFiles + run.nUrls

\* a closure is alive from the call of generateDataset to its finally block;
\* the locals of a closure that ended are kept for one more step only
Alive(r) == runs[r].pc \notin {"idle", "done", "failed"}

FreeSlots == {r \in RunIds : ~Alive(r)}

LowestFree == CHOOSE r \in FreeSlots : \A q \in FreeSlots : r <= q

\* no pair of runs is being compared
NoTwin == [units |-> <<0, 0>>, flags |-> <<>>, started |-> FALSE, hooks |-> <<>>]

\* no proxy function is invoked
ProxyIdle ==
    [handler |-> "none", httpMethod |-> "none", hasKey |-> FALSE, body |-> "none",
     pc |-> "idle", upstreamCalls |-> 0, upstream |-> 0, read |-> "none", responses |-> <<>>]

\* no GeminiService method is called outside a run
SvcIdle ==
    [job |-> "none", content |-> <<>>,
     themePc |-> "todo", themeCorpus |-> <<>>, genPc |-> "todo", genCorpus |-> <<>>,
     correctPairs |-> <<>>, pc |-> "todo", requests |-> 0, result |-> <<>>]

(* A bundle s holds what one task of a run reads and writes: the hook's    *)
(* state cells (s.ui), the closure's locals (s.run), the request counter   *)
(* and the setProgress history; s.steps collects the labels the task gives *)
(* to setCurrentStep.                                                      *)
Bundle(r) ==
    [ui |-> [isProcessing |-> isProcessing, processedData |-> processedData,
             currentStep |-> currentStep, progress |-> progress, error |-> error],
     run |-> runs[r], calls |-> calls, seq |-> progressSeq, steps |-> <<>>]

SetProgress(s, p) == [s EXCEPT !.ui.progress = p, !.seq = Append(@, p)]

SetCurrentStep(s, label) == [s EXCEPT !.ui.currentStep = label, !.steps = Append(@, label)]

\* a request to an InferenceClient leaves; the closure suspends at pc
Issue(s, stage, pc) ==
    [s EXCEPT !.calls = @ + 1, !.run.log = Append(@, <<"issue", stage>>), !.run.pc = pc]

\* geminiService.generateQAPairs is called in the given mode
Invoke(s, mode) == [s EXCEPT !.run.invoked = Append(@, mode)]

Resolved(s, stage) == [s EXCEPT !.run.log = Append(@, <<"resolve", stage>>)]

\* variant: the finally block is missing
FinallyLeavesProcessing(s, pc) == [s EXCEPT !.run.pc = pc]

\* finally { setIsProcessing(false) }
Finally(s, pc) == [s EXCEPT !.ui.isProcessing = FALSE, !.run.pc = pc]

\* variant: the catch block also drops the published Dataset
CatchClearsData(s, message) ==
    Finally([s EXCEPT !.ui.error = message, !.ui.processedData = NoData], "failed")

\* catch (err) { setError(errorMessage) } finally ...
Catch(s, message) == Finally([s EXCEPT !.ui.error = message], "failed")

\* variant: a Dataset that is already published is kept
PublishKeepsEarlier(s) ==
    LET s1 == SetCurrentStep(SetProgress(s, 95), StepCompiling)
        data == Compile(s.run.allPairs, s.run.incorrectPairs, s.run.themes, s.run.nFiles, s.run.nUrls)
        s2 == IF s1.ui.processedData = NoData THEN [s1 EXCEPT !.ui.processedData = <<data>>] ELSE s1
        s3 == SetCurrentStep(SetProgress(s2, 100), StepComplete)
    IN Finally(s3, "done")

\* variant: the completion label is never set
PublishWithoutLabel(s) ==
    LET s1 == SetCurrentStep(SetProgress(s, 95), StepCompiling)
        data == Compile(s.run.allPairs, s.run.incorrectPairs, s.run.themes, s.run.nFiles, s.run.nUrls)
        s2 == [s1 EXCEPT !.ui.processedData = <<data>>]
        s3 == SetProgress(s2, 100)
    IN Finally(s3, "done")

\* Step 7: compile, publish, finish
Publish(s) ==
    LET s1 == SetCurrentStep(SetProgress(s, 95), StepCompiling)
        data == Compile(s.run.allPairs, s.run.incorrectPairs, s.run.themes, s.run.nFiles, s.run.nUrls)
        s2 == [s1 EXCEPT !.ui.processedData = <<data>>]
        s3 == SetCurrentStep(SetProgress(s2, 100), StepComplete)
    IN Finally(s3, "done")

\* the distractor request was answered
AfterDistractors(s, reply) ==
    Publish([Resolved(s, "distractors") EXCEPT !.run.incorrectPairs = GenerateIncorrectAnswers(reply)])

\* validateQAPairs returned: annotate, then Step 6
StartDistractors(s) ==
    LET s1 == [s EXCEPT !.run.allPairs = Annotate(@, s.run.allResults)]
        s2 == SetCurrentStep(SetProgress(s1, 85), StepDistractors)
    IN IF NoCorrectPairs(s2.run.allPairs)
       THEN Publish([s2 EXCEPT !.run.incorrectPairs = <<>>])
       ELSE Issue(s2, "distractors", "distractors")

\* what a loop iteration made of a reply: the catch block does not tell a
\* failed request from an array that does not parse
Outcome(reply) ==
    [kind |-> IF reply.kind \in {"error", "badjson"} THEN "threw" ELSE reply.kind,
     entries |-> reply.entries]

\* variant: the loop steps by one less than the size of a sub-batch
AfterValidationBatchOverlapping(s, reply) ==
    LET n == BatchLen(s.run.i, Len(s.run.allPairs))
        s1 == [Resolved(s, "validation") EXCEPT
                  !.run.allResults = @ \o BatchResults(s.run.i, n, reply),
                  !.run.valLog = Append(@, Outcome(reply)),
                  !.run.i = @ + batchSize - 1]
    IN IF s1.run.i < Len(s1.run.allPairs)
       THEN Issue(s1, "validation", "validating")
       ELSE StartDistractors(s1)

\* one answered request of the validateQAPairs loop
AfterValidationBatch(s, reply) ==
    LET n == BatchLen(s.run.i, Len(s.run.allPairs))
        s1 == [Resolved(s, "validation") EXCEPT
                  !.run.allResults = @ \o BatchResults(s.run.i, n, reply),
                  !.run.valLog = Append(@, Outcome(reply)),
                  !.run.i = @ + batchSize]
    IN IF s1.run.i < Len(s1.run.allPairs)
       THEN Issue(s1, "validation", "validating")
       ELSE StartDistractors(s1)

\* both generation stages are over: zero-yield check, then Step 5
StartValidation(s) ==
    LET s1 == [s EXCEPT !.run.allPairs = s.run.qaPairs \o s.run.syntheticPairs] IN
    IF Len(s1.run.allPairs) = 0
    THEN Catch(s1, ZeroYieldMessage)
    ELSE Issue(SetCurrentStep(SetProgress(s1, 75), StepValidating), "validation", "validating")

AfterSynthetic(s, reply) ==
    StartValidation([Resolved(s, "synthetic") EXCEPT !.run.syntheticPairs = GenerateQAPairs(0, reply)])

\* variant: without themes the synthetic request is not sent
StartSyntheticNeedsThemes(s) ==
    LET s1 == Invoke(SetCurrentStep(SetProgress(s, 60), StepSynthetic), "synthetic") IN
    IF s1.run.themes.isArray /\ Len(s1.run.themes.items) > 0
    THEN Issue(s1, "synthetic", "synthetic")
    ELSE StartValidation([s1 EXCEPT !.run.syntheticPairs = <<>>])

\* Step 4.  themes.join is evaluated before the request is built: when
\* themes is not an array the call rejects and the catch leaves [].
StartSynthetic(s) ==
    LET s1 == Invoke(SetCurrentStep(SetProgress(s, 60), StepSynthetic), "synthetic") IN
    IF s1.run.themes.isArray
    THEN Issue(s1, "synthetic", "synthetic")
    ELSE StartValidation([s1 EXCEPT !.run.syntheticPairs = <<>>])

\* variant: synthetic generation is left out when the content gave pairs
AfterGroundedSkipsSynthetic(s, reply) ==
    LET s1 == [Resolved(s, "grounded") EXCEPT !.run.qaPairs = GenerateQAPairs(NContent(s.run), reply)] IN
    IF Len(s1.run.qaPairs) > 0
    THEN StartValidation([SetCurrentStep(SetProgress(s1, 60), StepSynthetic) EXCEPT !.run.syntheticPairs = <<>>])
    ELSE StartSynthetic(s1)

AfterGrounded(s, reply) ==
    StartSynthetic([Resolved(s, "grounded") EXCEPT !.run.qaPairs = GenerateQAPairs(NContent(s.run), reply)])

\* variant: the grounded and the synthetic request leave together
StartGroundedConcurrent(s) ==
    LET s0 == [s EXCEPT !.run.gapFilling = FALSE, !.run.appendSources = FALSE]
        s1 == SetCurrentStep(SetProgress(s0, 40), StepGrounded)
        s2 == IF NContent(s1.run) > 0 THEN Invoke(s1, "grounded") ELSE s1 IN
    IF NContent(s2.run) > 0 /\ s2.run.themes.isArray
    THEN Issue(Issue(s2, "grounded", "grounded"), "synthetic", "grounded")
    ELSE StartSynthetic([s2 EXCEPT !.run.qaPairs = <<>>])

\* Step 3
StartGrounded(s) ==
    LET s0 == [s EXCEPT !.run.gapFilling = FALSE, !.run.appendSources = FALSE]
        s1 == SetCurrentStep(SetProgress(s0, 40), StepGrounded)
        s2 == IF NContent(s1.run) > 0 THEN Invoke(s1, "grounded") ELSE s1 IN
    IF NContent(s2.run) > 0 /\ s2.run.themes.isArray
    THEN Issue(s2, "grounded", "grounded")
    ELSE StartSynthetic([s2 EXCEPT !.run.qaPairs = <<>>])

\* variant: the search adds a source to the content of the run
StartAppendSourcesAppends(s) ==
    IF s.run.appendSources
    THEN [SetCurrentStep(s, StepSources) EXCEPT !.run.pc = "append", !.run.nUrls = @ + 1]
    ELSE StartGrounded(s)

\* if (appendSources) { ... await timer }
StartAppendSources(s) ==
    IF s.run.appendSources
    THEN [SetCurrentStep(s, StepSources) EXCEPT !.run.pc = "append"]
    ELSE StartGrounded(s)

\* variant: setProgress(25) is missing
AfterThemesNoProgress(s, reply) ==
    LET s1 == [Resolved(s, "themes") EXCEPT !.run.themes = IdentifyThemes(reply)] IN
    IF s1.run.gapFilling
    THEN [SetCurrentStep(s1, StepGaps) EXCEPT !.run.pc = "gap"]
    ELSE StartAppendSources(s1)

\* the theme request was answered; Step 2
AfterThemes(s, reply) ==
    LET s1 == SetProgress([Resolved(s, "themes") EXCEPT !.run.themes = IdentifyThemes(reply)], 25) IN
    IF s1.run.gapFilling
    THEN [SetCurrentStep(s1, StepGaps) EXCEPT !.run.pc = "gap"]
    ELSE StartAppendSources(s1)

\* generateDataset up to its first await
GenerateDataset(s, nf, nu, gap, app) ==
    LET ui1 == [s.ui EXCEPT !.isProcessing = TRUE, !.error = NullErr]
        run1 == [IdleRun EXCEPT !.nFiles = nf, !.nUrls = nu, !.gapFilling = gap,
                                !.appendSources = app, !.dataAtStart = s.ui.processedData]
        s0 == SetProgress([s EXCEPT !.ui = ui1, !.run = run1, !.seq = <<>>, !.steps = <<>>], 0)
        s1 == SetCurrentStep(s0, StepInitializing)
        s2 == SetProgress(SetCurrentStep(s1, StepThemes), 10)
    IN Issue(s2, "themes", "themes")

\* variant: setError(null) is missing
ResetKeepsError(ui) ==
    [ui EXCEPT !.processedData = NoData, !.currentStep = StepNone, !.progress = 0,
               !.isProcessing = FALSE]

\* resetGeneration
ResetGeneration(ui) ==
    [ui EXCEPT !.processedData = NoData, !.currentStep = StepNone, !.progress = 0,
               !.error = NullErr, !.isProcessing = FALSE]

(* ------------------------------ actions -------------------------------- *)
\* write a bundle back
Commit(r, s, op) ==
    /\ s.calls <= MaxCalls
    /\ isProcessing' = s.ui.isProcessing
    /\ processedData' = s.ui.processedData
    /\ currentStep' = s.ui.currentStep
    /\ progress' = s.ui.progress
    /\ error' = s.ui.error
    /\ runs' = [runs EXCEPT ![r] = s.run]
    /\ calls' = s.calls
    /\ progressSeq' = s.seq
    /\ lastOp' = op
    /\ UNCHANGED <<svc, twin, proxy>>

Init ==
    /\ isProcessing = FALSE
    /\ processedData = NoData
    /\ currentStep = StepNone
    /\ progress = 0
    /\ error = NullErr
    /\ runs = [r \in RunIds |-> IdleRun]
    /\ calls = 0
    /\ progressSeq = <<>>
    /\ lastOp = "init"
    /\ svc = SvcIdle
    /\ twin = NoTwin
    /\ proxy = ProxyIdle

ThemesReply(r) ==
    /\ runs[r].pc = "themes"
    /\ \E reply \in ThemeReplies : Commit(r, AfterThemes(Bundle(r), reply), "resume")

GapTimer(r) ==
    /\ runs[r].pc = "gap"
    /\ Commit(r, StartAppendSources(Bundle(r)), "resume")

AppendTimer(r) ==
    /\ runs[r].pc = "append"
    /\ Commit(r, StartGrounded(Bundle(r)), "resume")

GroundedReply(r) ==
    /\ runs[r].pc = "grounded"
    /\ \E reply \in GenReplies(1) : Commit(r, AfterGrounded(Bundle(r), reply), "resume")

SyntheticReply(r) ==
    /\ runs[r].pc = "synthetic"
    /\ \E reply \in GenReplies(2) : Commit(r, AfterSynthetic(Bundle(r), reply), "resume")

ValidationReply(r) ==
    /\ runs[r].pc = "validating"
    /\ \E reply \in ValReplies(BatchLen(runs[r].i, Len(runs[r].allPairs))) :
          Commit(r, AfterValidationBatch(Bundle(r), reply), "resume")

DistractorReply(r) ==
    /\ runs[r].pc = "distractors"
    /\ \E reply \in DistractorReplies(PairsToProcess(runs[r].allPairs)) :
          Commit(r, AfterDistractors(Bundle(r), reply), "resume")

\* a suspended closure of generateDataset resumes
Resume == \E r \in RunIds :
    \/ ThemesReply(r)
    \/ GapTimer(r)
    \/ AppendTimer(r)
    \/ GroundedReply(r)
    \/ SyntheticReply(r)
    \/ ValidationReply(r)
    \/ DistractorReply(r)

(* App: the two buttons.  files, urls, gapFilling and appendSources are    *)
(* App state the user sets through inputs that are enabled whenever        *)
(* isProcessing is false; the model draws their values at the click.       *)
\* <<files.length, urls.length>>: nothing, files only, urls only
UnitCounts == {<<0, 0>>, <<MaxUnits, 0>>, <<0, MaxUnits>>}

\* variant: the Generate button is disabled only for want of input
GenerateButtonIgnoresProcessing(nFiles, nUrls) == ~(nFiles = 0 /\ nUrls = 0)

\* disabled prop of the Generate button
GenerateButtonEnabled(nFiles, nUrls) == ~(isProcessing \/ (nFiles = 0 /\ nUrls = 0))

\* disabled prop of the Reset button
ResetButtonEnabled == ~isProcessing

HandleGenerate ==
    /\ FreeSlots # {}
    /\ \E c \in UnitCounts, gap \in BOOLEAN, app \in BOOLEAN :
          /\ GenerateButtonEnabled(c[1], c[2])
          /\ Commit(LowestFree, GenerateDataset(Bundle(LowestFree), c[1], c[2], gap, app), "generate")

CommitReset ==
    /\ LET ui == ResetGeneration(Bundle(1).ui) IN
          /\ isProcessing' = ui.isProcessing
          /\ processedData' = ui.processedData
          /\ currentStep' = ui.currentStep
          /\ progress' = ui.progress
          /\ error' = ui.error
    /\ progressSeq' = <<0>>
    /\ lastOp' = "reset"
    /\ runs' = [r \in RunIds |-> IF Alive(r) THEN runs[r] ELSE IdleRun]
    /\ UNCHANGED <<calls, svc, twin, proxy>>

HandleReset ==
    /\ ResetButtonEnabled
    /\ CommitReset

AppNext ==
    \/ HandleGenerate
    \/ HandleReset
    \/ Resume

\* the program: App driving the hook
AppSpec == Init /\ [][AppNext]_vars

(* the hook on its own: a caller that keeps to one run at a time but may   *)
(* reset at any moment                                                     *)
CallGenerateDataset ==
    /\ \A r \in RunIds : ~Alive(r)
    /\ \E c \in UnitCounts, gap \in BOOLEAN, app \in BOOLEAN :
          Commit(LowestFree, GenerateDataset(Bundle(LowestFree), c[1], c[2], gap, app), "generate")

CallResetGeneration == CommitReset

Next ==
    \/ CallGenerateDataset
    \/ CallResetGeneration
    \/ Resume

Spec == Init /\ [][Next]_vars

(* The program under the assumption that every request is answered and    *)
(* every timer fires.  A run is started only when the request budget of    *)
(* the model covers it, so that no run is cut short by the budget.         *)
\* the most requests one run sends: themes, grounded, synthetic, one per
\* sub-batch of at most 2 * MaxPairs pairs, distractors
MaxRunCalls == 4 + ((2 * MaxPairs + batchSize - 1) \div batchSize)

LiveGenerate ==
    /\ \A r \in RunIds : ~Alive(r)
    /\ calls + MaxRunCalls <= MaxCalls
    /\ HandleGenerate

\* the suspended closure in slot r resumes
ResumeRun(r) ==
    \/ ThemesReply(r)
    \/ GapTimer(r)
    \/ AppendTimer(r)
    \/ GroundedReply(r)
    \/ SyntheticReply(r)
    \/ ValidationReply(r)
    \/ DistractorReply(r)

LiveNext ==
    \/ LiveGenerate
    \/ HandleReset
    \/ Resume

LiveSpec == Init /\ [][LiveNext]_vars /\ \A r \in RunIds : WF_vars(ResumeRun(r))

(* GeminiService on its own: one method is called with arguments drawn    *)
(* at the start, outside any run of the hook.                              *)
hookVars == <<isProcessing, processedData, currentStep, progress, error,
              runs, calls, progressSeq, lastOp>>

\* n correct pairs as generateQAPairs returns them for a grounded call
CorrectPairs(n) == [k \in 1..n |-> QAPairOf(GenEntry(1, k), 1)]

\* no pair, one pair, more pairs than the prompt lists
CorrectPairLists == {CorrectPairs(n) : n \in {0, 1, DistractorCap + 1}}

\* the hook has not been used
HookIdle ==
    /\ isProcessing = FALSE
    /\ processedData = NoData
    /\ currentStep = StepNone
    /\ progress = 0
    /\ error = NullErr
    /\ runs = [r \in RunIds |-> IdleRun]
    /\ calls = 0
    /\ progressSeq = <<>>
    /\ lastOp = "init"

ServiceInit ==
    /\ HookIdle
    /\ twin = NoTwin
    /\ proxy = ProxyIdle
    /\ svc \in {[SvcIdle EXCEPT !.job = "corpus", !.content = c] : c \in Contents}
              \cup {[SvcIdle EXCEPT !.job = "distractors", !.correctPairs = cp] : cp \in CorrectPairLists}

\* identifyThemes builds its prompt
BuildThemePrompt ==
    /\ svc.job = "corpus" /\ svc.themePc = "todo"
    /\ svc' = [svc EXCEPT !.themePc = "built", !.themeCorpus = ThemeCorpus(svc.content)]
    /\ UNCHANGED <<hookVars, twin, proxy>>

\* generateQAPairs builds its prompt: with the corpus when there is
\* content, the synthetic prompt otherwise
BuildGenerationPrompt ==
    /\ svc.job = "corpus" /\ svc.genPc = "todo"
    /\ svc' = IF Len(svc.content) > 0
              THEN [svc EXCEPT !.genPc = "built", !.genCorpus = GenerationCorpus(svc.content)]
              ELSE [svc EXCEPT !.genPc = "synthetic"]
    /\ UNCHANGED <<hookVars, twin, proxy>>

\* generateIncorrectAnswers up to its await, or to its early return
CallGenerateIncorrectAnswers ==
    /\ svc.job = "distractors" /\ svc.pc = "todo"
    /\ svc' = IF NoCorrectPairs(svc.correctPairs)
              THEN [svc EXCEPT !.pc = "returned", !.result = <<>>]
              ELSE [svc EXCEPT !.pc = "pending", !.requests = @ + 1]
    /\ UNCHANGED <<hookVars, twin, proxy>>

\* the request of generateIncorrectAnswers was answered
ReturnGenerateIncorrectAnswers ==
    /\ svc.job = "distractors" /\ svc.pc = "pending"
    /\ \E reply \in DistractorReplies(PairsToProcess(svc.correctPairs)) :
          svc' = [svc EXCEPT !.pc = "returned", !.result = GenerateIncorrectAnswers(reply)]
    /\ UNCHANGED <<hookVars, twin, proxy>>

ServiceNext ==
    \/ BuildThemePrompt
    \/ BuildGenerationPrompt
    \/ CallGenerateIncorrectAnswers
    \/ ReturnGenerateIncorrectAnswers

ServiceSpec == ServiceInit /\ [][ServiceNext]_vars

(* Two runs of generateDataset side by side, each in a hook of its own,    *)
(* given the same files and urls and answered with the same replies.  The  *)
(* second hook may have been used before.                                  *)
\* the state cells of a hook that was never used
InitialUi ==
    [isProcessing |-> FALSE, processedData |-> NoData, currentStep |-> StepNone,
     progress |-> 0, error |-> NullErr]

\* the Dataset an earlier run left
EarlierDataset == Compile(CorrectPairs(1), <<>>, EmptyThemes, MaxUnits, 0)

\* the state cells a hook at rest can have: never used, after a Complete
\* run, after a Failed run
PriorUis ==
    {InitialUi,
     [InitialUi EXCEPT !.processedData = <<EarlierDataset>>, !.currentStep = StepComplete,
                       !.progress = 100],
     [InitialUi EXCEPT !.error = ZeroYieldMessage, !.currentStep = StepSynthetic, !.progress = 60]}

\* gapFilling and appendSources
Flags == [gap : BOOLEAN, app : BOOLEAN]

HookAtRest(ui) == [ui |-> ui, run |-> IdleRun, calls |-> 0, seq |-> <<>>, steps |-> <<>>]

TwinInit ==
    /\ HookIdle
    /\ svc = SvcIdle
    /\ proxy = ProxyIdle
    /\ twin \in {[units |-> c, flags |-> <<fa, fb>>, started |-> FALSE,
                   hooks |-> <<HookAtRest(InitialUi), HookAtRest(ui)>>] :
                     c \in UnitCounts, fa \in Flags, fb \in Flags, ui \in PriorUis}

\* every hook of the pair whose run stands at pc takes the step
TwinStep(pc, Step(_)) ==
    /\ twin.started
    /\ \E k \in 1..2 : twin.hooks[k].run.pc = pc
    /\ twin' = [twin EXCEPT !.hooks = [k \in 1..2 |->
                    IF twin.hooks[k].run.pc = pc THEN Step(twin.hooks[k]) ELSE twin.hooks[k]]]
    /\ UNCHANGED <<hookVars, svc, proxy>>

\* both runs await the same request
TwinAwait(pc) == twin.started /\ \A k \in 1..2 : twin.hooks[k].run.pc = pc

TwinStart ==
    /\ ~twin.started
    /\ twin' = [twin EXCEPT !.started = TRUE, !.hooks = [k \in 1..2 |->
                    GenerateDataset(twin.hooks[k], twin.units[1], twin.units[2],
                                    twin.flags[k].gap, twin.flags[k].app)]]
    /\ UNCHANGED <<hookVars, svc, proxy>>

TwinThemesReply ==
    /\ TwinAwait("themes")
    /\ \E reply \in ThemeReplies : TwinStep("themes", LAMBDA h : AfterThemes(h, reply))

TwinGapTimer == TwinStep("gap", StartAppendSources)

TwinAppendTimer == TwinStep("append", StartGrounded)

TwinGroundedReply ==
    /\ TwinAwait("grounded")
    /\ \E reply \in GenReplies(1) : TwinStep("grounded", LAMBDA h : AfterGrounded(h, reply))

TwinSyntheticReply ==
    /\ TwinAwait("synthetic")
    /\ \E reply \in GenReplies(2) : TwinStep("synthetic", LAMBDA h : AfterSynthetic(h, reply))

TwinValidationReply ==
    /\ TwinAwait("validating")
    /\ \E reply \in ValReplies(BatchLen(twin.hooks[1].run.i, Len(twin.hooks[1].run.allPairs))) :
          TwinStep("validating", LAMBDA h : AfterValidationBatch(h, reply))

TwinDistractorReply ==
    /\ TwinAwait("distractors")
    /\ \E reply \in DistractorReplies(PairsToProcess(twin.hooks[1].run.allPairs)) :
          TwinStep("distractors", LAMBDA h : AfterDistractors(h, reply))

TwinNext ==
    \/ TwinStart
    \/ TwinThemesReply
    \/ TwinGapTimer
    \/ TwinAppendTimer
    \/ TwinGroundedReply
    \/ TwinSyntheticReply
    \/ TwinValidationReply
    \/ TwinDistractorReply

TwinSpec == TwinInit /\ [][TwinNext]_vars

(* The proxy functions gemini-chat and openrouter-chat: one invocation of  *)
(* a handler, from the event to the response.                              *)
Handlers == {"gemini-chat", "openrouter-chat"}

Methods == {"OPTIONS", "GET", "PUT", "POST"}

\* event.body: null, the empty string, text that is no JSON, the JSON text
\* null, a JSON object
Bodies == {"null", "empty", "malformed", "jsonNull", "request"}

\* what fetch settles to: 0 for a rejected promise, else response.status
FetchOutcomes == {0, 200, 401, 429, 503}

\* response.ok
Ok(status) == status \in 200..299

\* what reading the upstream body gives: the read fails (or the body of an
\* OK response is no JSON), or the data is the JSON value null, has no
\* candidates, has candidates whose parts are no array, has text parts
ReadOutcomes == {"failed", "null", "noCandidates", "partsNoArray", "wellFormed"}

\* return { statusCode, ... }
Respond(p, statusCode) == [p EXCEPT !.responses = Append(@, statusCode), !.pc = "responded"]

\* variant: every method but OPTIONS is served like POST
HandleEventAnyMethod(p) ==
    IF p.httpMethod = "OPTIONS" THEN Respond(p, 200)
    ELSE IF ~p.hasKey THEN Respond(p, 500)
    ELSE IF p.body \in {"null", "empty"} THEN Respond(p, 400)
    ELSE IF p.body \in {"malformed", "jsonNull"} THEN Respond(p, 500)
    ELSE [p EXCEPT !.upstreamCalls = @ + 1, !.pc = "fetching"]

\* the handler up to its first await (the fetch) or to its return; a throw
\* of JSON.parse or of the destructuring lands in the catch block
HandleEvent(p) ==
    IF p.httpMethod = "OPTIONS" THEN Respond(p, 200)
    ELSE IF p.httpMethod # "POST" THEN Respond(p, 405)
    ELSE IF ~p.hasKey THEN Respond(p, 500)
    ELSE IF p.body \in {"null", "empty"} THEN Respond(p, 400)
    ELSE IF p.body \in {"malformed", "jsonNull"} THEN Respond(p, 500)
    ELSE [p EXCEPT !.upstreamCalls = @ + 1, !.pc = "fetching"]

\* fetch settled: a rejection is caught, else the body is read
AfterFetch(p, outcome) ==
    IF outcome = 0 THEN Respond(p, 500)
    ELSE [p EXCEPT !.upstream = outcome, !.pc = "reading"]

\* response.text() or response.json() settled
AfterRead(p, outcome) ==
    LET p1 == [p EXCEPT !.read = IF ~Ok(p.upstream) /\ outcome # "failed" THEN "text" ELSE outcome] IN
    IF outcome = "failed" THEN Respond(p1, 500)
    ELSE IF ~Ok(p.upstream) THEN Respond(p1, p.upstream)
    ELSE IF p.handler = "gemini-chat" /\ outcome \in {"null", "partsNoArray"} THEN Respond(p1, 500)
    ELSE Respond(p1, 200)

ProxyInit ==
    /\ HookIdle
    /\ svc = SvcIdle
    /\ twin = NoTwin
    /\ proxy \in {[ProxyIdle EXCEPT !.handler = h, !.httpMethod = m, !.hasKey = k, !.body = b,
                                     !.pc = "invoked"] :
                      h \in Handlers, m \in Methods, k \in BOOLEAN, b \in Bodies}

ProxyHandle ==
    /\ proxy.pc = "invoked"
    /\ proxy' = HandleEvent(proxy)
    /\ UNCHANGED <<hookVars, svc, twin>>

ProxyFetchSettles ==
    /\ proxy.pc = "fetching"
    /\ \E outcome \in FetchOutcomes : proxy' = AfterFetch(proxy, outcome)
    /\ UNCHANGED <<hookVars, svc, twin>>

ProxyBodyRead ==
    /\ proxy.pc = "reading"
    /\ \E outcome \in ReadOutcomes : proxy' = AfterRead(proxy, outcome)
    /\ UNCHANGED <<hookVars, svc, twin>>

ProxyNext ==
    \/ ProxyHandle
    \/ ProxyFetchSettles
    \/ ProxyBodyRead

ProxySpec == ProxyInit /\ [][ProxyNext]_vars

(* =============================== claims ================================ *)
Range(f) == {f[k] : k \in DOMAIN f}

IsPrefix(p, q) == Len(p) <= Len(q) /\ SubSeq(q, 1, Len(p)) = p

\* validateQAPairs has returned to the run in slot r
ValidationDone(r) == runs[r].pc \in {"distractors", "done"}

\* the run in slot r has just ended
JustEnded(r, pc) == runs[r].pc = pc /\ lastOp = "resume"

\* the pairs the two generation stages handed to the orchestrator
Generated(r) == runs[r].qaPairs \o runs[r].syntheticPairs

\* the sub-batch (1-based) of the pair at 1-based position k
BatchOf(k) == ((k - 1) \div batchSize) + 1

FallbackReason(reply) == IF reply.kind = "noarray" THEN "Validation parsing failed" ELSE "Validation error"

\* result k is about pair k: the fallback of a failed sub-batch, or what the
\* reply of its sub-batch says of that very item
DescribesPair(r, k) ==
    LET reply == runs[r].valLog[BatchOf(k)]
        item == k - (BatchOf(k) - 1) * batchSize
        res == runs[r].allResults[k]
    IN IF reply.kind = "array"
       THEN \E e \in Range(reply.entries) : e.index = item /\ res = JudgedResult(k - 1, e)
       ELSE res = FallbackResult(k - 1, FallbackReason(reply))

\* C1: whatever each sub-batch's request yields, validateQAPairs returns
\* exactly one result per input pair and result i describes input pair i.
C1_OneResultPerPair ==
    \A r \in RunIds : ValidationDone(r) =>
        /\ Len(runs[r].allResults) = Len(runs[r].allPairs)
        /\ \A k \in 1..Len(runs[r].allResults) :
              runs[r].allResults[k].pairId = k - 1 /\ DescribesPair(r, k)

\* the five state cells as resetGeneration leaves them
IdleCells ==
    /\ processedData = NoData
    /\ currentStep = StepNone
    /\ progress = 0
    /\ error = NullErr
    /\ isProcessing = FALSE

\* C2: once reset, the cells stay at their reset values until the next
\* call of generateDataset, whatever a run suspended at the time of the
\* reset does when its request resolves.
C2_ResetDiscardsInFlightRun == [][(IdleCells /\ lastOp' # "generate") => IdleCells']_vars

StagesIssued(r) == {ev[2] : ev \in {e \in Range(runs[r].log) : e[1] = "issue"}}

\* both generation stages are over for the run in slot r and gave no pair
ZeroYield(r) ==
    /\ runs[r].pc \in {"validating", "distractors", "done", "failed"}
    /\ Len(Generated(r)) = 0

\* C3: a run whose two generation stages yield no pair ends in Failed with
\* an error message, leaves processedData as it was before the run and
\* issues no validation and no distractor request.
C3_ZeroYieldFails ==
    \A r \in RunIds : ZeroYield(r) =>
        /\ runs[r].pc = "failed"
        /\ StagesIssued(r) \cap {"validation", "distractors"} = {}
        /\ lastOp = "resume" =>
              /\ error = ZeroYieldMessage
              /\ error # NullErr
              /\ processedData = runs[r].dataAtStart
              /\ ~isProcessing

\* a zero-yield failure that keeps the Dataset of an earlier run
C3_Witness ==
    \E r \in RunIds : JustEnded(r, "failed") /\ ZeroYield(r) /\ processedData # NoData

\* the generation requests the run owes were sent
GenerationRequested(r) ==
    /\ "synthetic" \in StagesIssued(r)
    /\ NContent(runs[r]) > 0 => "grounded" \in StagesIssued(r)

\* C4: a run fails only because the generation requests gave no pair, never
\* because of what the theme, validation or distractor request returned;
\* a Complete run has no error.
C4_OnlyGenerationFails ==
    \A r \in RunIds :
        /\ runs[r].pc = "failed" => (Len(Generated(r)) = 0 /\ GenerationRequested(r))
        /\ JustEnded(r, "done") => error = NullErr

\* C5: every generated pair is in the Dataset of a Complete run, at its
\* place, whatever the validator returned for it.
C5_ValidationKeepsPairs ==
    \A r \in RunIds : JustEnded(r, "done") =>
        /\ Len(processedData) = 1
        /\ Len(processedData[1].qaPairs) >= Len(Generated(r))
        /\ \A k \in 1..Len(Generated(r)) :
              /\ processedData[1].qaPairs[k].user = Generated(r)[k].question
              /\ processedData[1].qaPairs[k].model = Generated(r)[k].answer

\* a Complete run with a rejected pair and a pair the validator gave no
\* result for
C5_Witness ==
    \E r \in RunIds :
        /\ JustEnded(r, "done")
        /\ \E k \in 1..Len(Generated(r)) : processedData[1].qaPairs[k].validationStatus = "rejected"
        /\ \E k \in 1..Len(Generated(r)) : processedData[1].qaPairs[k].validationStatus = NoStatus

IsDefaultResult(res) == res.isValid = TRUE /\ res.confidence = FallbackConfidence

IsFallback(res) == res.reasoning \in {"Validation parsing failed", "Validation error"}

\* C6: when a sub-batch fails, exactly its pairs get the default result and
\* the pairs of the other sub-batches keep what was judged for them.
C6_FailureStaysInSubBatch ==
    \A r \in RunIds :
        (ValidationDone(r) /\ \E b \in 1..Len(runs[r].valLog) : runs[r].valLog[b].kind # "array") =>
            \A k \in 1..Len(runs[r].allPairs) :
                LET reply == runs[r].valLog[BatchOf(k)]
                    item == k - (BatchOf(k) - 1) * batchSize
                IN IF reply.kind # "array"
                   THEN /\ k <= Len(runs[r].allResults)
                        /\ IsDefaultResult(runs[r].allResults[k])
                        /\ IsFallback(runs[r].allResults[k])
                   ELSE /\ k <= Len(runs[r].allResults) => ~IsFallback(runs[r].allResults[k])
                        /\ \A e \in Range(reply.entries) : e.index = item =>
                              /\ k <= Len(runs[r].allResults)
                              /\ runs[r].allResults[k] = JudgedResult(k - 1, e)

StageRank(stage) ==
    CASE stage = "themes" -> 1
      [] stage = "grounded" -> 2
      [] stage = "synthetic" -> 3
      [] stage = "validation" -> 4
      [] stage = "distractors" -> 5

\* requests leave one at a time, each after the previous one resolved, and
\* never for an earlier stage than the previous one
Sequential(log) ==
    /\ \A k \in 1..Len(log) : log[k][1] = (IF k % 2 = 1 THEN "issue" ELSE "resolve")
    /\ \A k \in 1..Len(log) - 1 :
          /\ k % 2 = 1 => log[k + 1][2] = log[k][2]
          /\ StageRank(log[k][2]) <= StageRank(log[k + 1][2])
          /\ (k % 2 = 0 /\ log[k][2] # "validation") => StageRank(log[k][2]) < StageRank(log[k + 1][2])

\* C7: the stages of a run issue their requests strictly in the order
\* themes, grounded, synthetic, validation, distractors, each only after
\* the previous request resolved, and the Dataset is published only after
\* all of them.
C7_StagesInOrder ==
    \A r \in RunIds :
        /\ Sequential(runs[r].log)
        /\ Alive(r) => (Len(runs[r].log) % 2 = 1 \/ runs[r].pc \in {"gap", "append"})
        /\ Alive(r) => processedData = runs[r].dataAtStart
        /\ runs[r].pc = "done" =>
              /\ Len(runs[r].log) % 2 = 0
              /\ runs[r].log[Len(runs[r].log)] = <<"resolve", "distractors">>
              /\ {"themes", "grounded", "synthetic", "validation", "distractors"} \subseteq StagesIssued(r)

\* a Complete run that needed two validation requests
C7_Witness ==
    \E r \in RunIds : JustEnded(r, "done") /\ Len(runs[r].valLog) = 2 /\ processedData # NoData

Schedule == <<0, 10, 25, 40, 60, 75, 85, 95, 100>>

\* C8: in a run that is not reset the values given to setProgress are, in
\* order, the schedule 0, 10, 25, 40, 60, 75, 85, 95, 100 (cut short where
\* the run fails), so progress never goes down during the run.
C8_ProgressFollowsSchedule ==
    /\ IsPrefix(progressSeq, Schedule)
    /\ progressSeq # <<>> => progress = progressSeq[Len(progressSeq)]
    /\ \A r \in RunIds :
          /\ JustEnded(r, "done") => progressSeq = Schedule
          /\ JustEnded(r, "failed") => progressSeq = SubSeq(Schedule, 1, 5)

C8_Witness == \E r \in RunIds : JustEnded(r, "done") /\ progress = 100 /\ Len(progressSeq) = 9

\* C9: right after resetGeneration the five cells have their initial
\* values, in whatever state the call was made.
C9_ResetGivesIdle == lastOp = "reset" => IdleCells

\* a reset made while a run is suspended in validation
C9_Witness ==
    /\ lastOp = "reset"
    /\ \E r \in RunIds : runs[r].pc = "validating"

\* C10: driven through the App buttons, at most one run is alive, it is
\* alive exactly while isProcessing is true, and no reset happens while a
\* run is alive.
C10_SingleRunThroughApp ==
    /\ Cardinality({r \in RunIds : Alive(r)}) <= 1
    /\ isProcessing <=> \E r \in RunIds : Alive(r)
    /\ lastOp = "reset" => \A r \in RunIds : ~Alive(r)

\* a second run started through the Generate button once the first ended
C10_Witness == lastOp = "generate" /\ calls > 1 /\ isProcessing

(* ---- C11 ---- *)
\* the characters of unit k as the prompt renders it: with its label line
\* in a theme request, the bare content in a generation request
RenderedLen(c, labelled) == (IF labelled THEN LabelLen(c) + 1 ELSE 0) + c.contentLen

\* L: the length of the units' renderings concatenated in order with the
\* separator between neighbours
RECURSIVE NaiveLengthFrom(_, _, _)
NaiveLengthFrom(content, labelled, k) ==
    IF k > Len(content) THEN 0
    ELSE RenderedLen(content[k], labelled)
         + (IF k < Len(content) THEN SeparatorLen ELSE 0)
         + NaiveLengthFrom(content, labelled, k + 1)

NaiveLength(content, labelled) == NaiveLengthFrom(content, labelled, 1)

\* character p (from 1) of that concatenation, counted from unit k on
RECURSIVE NaiveCharAt(_, _, _, _)
NaiveCharAt(content, labelled, k, p) ==
    LET c == content[k]
        lab == IF labelled THEN LabelLen(c) ELSE 0
        nl == IF labelled THEN 1 ELSE 0
        body == lab + nl + c.contentLen
    IN IF p <= lab THEN <<k, "label", p - 1>>
       ELSE IF p <= lab + nl THEN <<k, "newline", 0>>
       ELSE IF p <= body THEN <<k, "content", p - lab - nl - 1>>
       ELSE IF p <= body + SeparatorLen THEN <<k, "separator", p - body - 1>>
       ELSE NaiveCharAt(content, labelled, k + 1, p - body - SeparatorLen)

\* character p (from 1) of a text
RECURSIVE CharAt(_, _)
CharAt(text, p) ==
    IF p <= Head(text).len
    THEN <<Head(text).unit, Head(text).part, Head(text).from + p - 1>>
    ELSE CharAt(Tail(text), p - Head(text).len)

\* the first and the last position of every run of a text
RECURSIVE RunEnds(_, _)
RunEnds(text, base) ==
    IF text = <<>> THEN {}
    ELSE {base + 1, base + Head(text).len} \cup RunEnds(Tail(text), base + Head(text).len)

\* the first and the last position of every part of the concatenation
RECURSIVE NaiveEnds(_, _, _, _)
NaiveEnds(content, labelled, k, base) ==
    IF k > Len(content) THEN {}
    ELSE LET c == content[k]
             lab == IF labelled THEN LabelLen(c) ELSE 0
             nl == IF labelled THEN 1 ELSE 0
             body == lab + nl + c.contentLen
             cuts == {0, lab, lab + nl, body, body + SeparatorLen}
         IN {base + x : x \in cuts} \cup {base + x + 1 : x \in cuts}
            \cup NaiveEnds(content, labelled, k + 1, base + body + SeparatorLen)

\* Between two neighbouring positions of this set the corpus and the
\* concatenation both run through consecutive characters of one part, so
\* they agree everywhere when they agree on the set.
ProbePositions(corpus, content, labelled) ==
    (RunEnds(corpus, 0) \cup NaiveEnds(content, labelled, 1, 0)) \cap (1..Length(corpus))

IsCutOfConcatenation(corpus, content, labelled) ==
    LET L == NaiveLength(content, labelled) IN
    /\ Length(corpus) = Min(L, MAX_TOTAL_CONTEXT_CHARS)
    /\ Length(corpus) <= MAX_TOTAL_CONTEXT_CHARS
    /\ L > MAX_TOTAL_CONTEXT_CHARS => Length(corpus) = MAX_TOTAL_CONTEXT_CHARS
    /\ \A p \in ProbePositions(corpus, content, labelled) :
          CharAt(corpus, p) = NaiveCharAt(content, labelled, 1, p)

IsWholeConcatenation(text, content, labelled) ==
    /\ Length(text) = NaiveLength(content, labelled)
    /\ \A p \in ProbePositions(text, content, labelled) :
          CharAt(text, p) = NaiveCharAt(content, labelled, 1, p)

BothPromptsBuilt == svc.themePc = "built" /\ svc.genPc = "built"

WithoutLabels(text) == SelectSeq(text, LAMBDA run : run.part \notin {"label", "newline"})

HasBothFields(pair) == pair.question # Undef /\ pair.answer # Undef

\* C13: every pair generateQAPairs returned has a question and an answer,
\* a reply entry lacking either having been dropped; so no pair without a
\* question or an answer reaches validation or the Dataset.
C13_PairsHaveBothFields ==
    \A r \in RunIds :
        /\ \A k \in 1..Len(Generated(r)) : HasBothFields(Generated(r)[k])
        /\ \A k \in 1..Len(runs[r].allPairs) : HasBothFields(runs[r].allPairs[k])

(* ---- C14 ---- *)
\* C14: whatever the theme request came to (transport error, unparseable
\* text, a parseable value that is no list, a list), the value
\* identifyThemes returned to the run is a list.
C14_ThemesAlwaysList == \A r \in RunIds : runs[r].themes.isArray

(* ---- C15 ---- *)
PastSynthetic(r) == runs[r].pc \in {"validating", "distractors", "done", "failed"}

\* C15: a run whose theme list is the empty list still sends the synthetic
\* generation request, the request is answered into the run, and the pairs
\* it returns are the entries of the reply tagged as synthetic.
C15_EmptyThemesStillGenerate ==
    \A r \in RunIds : (PastSynthetic(r) /\ runs[r].themes = EmptyThemes) =>
        /\ <<"issue", "synthetic">> \in Range(runs[r].log)
        /\ <<"resolve", "synthetic">> \in Range(runs[r].log)
        /\ \E reply \in GenReplies(2) :
              /\ Len(runs[r].syntheticPairs) = (IF reply.kind = "text" /\ reply.span = "valid"
                                                THEN Len(reply.items) ELSE 0)
              /\ \A k \in 1..Len(runs[r].syntheticPairs) :
                    /\ runs[r].syntheticPairs[k].question
                          = OrElse(reply.items[k].user, reply.items[k].question)
                    /\ runs[r].syntheticPairs[k].source = "synthetic"

\* a Complete run without themes whose synthetic reply had MaxPairs entries
C15_Witness ==
    \E r \in RunIds :
        /\ JustEnded(r, "done")
        /\ runs[r].themes = EmptyThemes
        /\ Len(runs[r].syntheticPairs) = MaxPairs

(* ---- C16 ---- *)
SourceTags == {"original", "synthetic", "generated_distractor"}

\* C16: in the Dataset of a Complete run every pair has one of the three
\* source tags, set by the stage that made it: 'original' for the pairs of
\* grounded generation, 'synthetic' for those of synthetic generation,
\* 'generated_distractor' for the distractors.
C16_SourceFollowsStage ==
    \A r \in RunIds : JustEnded(r, "done") =>
        LET pairs == processedData[1].qaPairs
            g == Len(runs[r].qaPairs)
            sy == Len(runs[r].syntheticPairs)
        IN /\ Len(pairs) = g + sy + Len(runs[r].incorrectPairs)
           /\ \A k \in 1..Len(pairs) :
                 /\ pairs[k].source \in SourceTags
                 /\ pairs[k].source = (IF k <= g THEN "original"
                                       ELSE IF k <= g + sy THEN "synthetic"
                                       ELSE "generated_distractor")

\* a Dataset with pairs of all three stages
C16_Witness ==
    \E r \in RunIds :
        /\ JustEnded(r, "done")
        /\ SourceTags = {processedData[1].qaPairs[k].source : k \in 1..Len(processedData[1].qaPairs)}

(* ---- C17 ---- *)
Distractors(data) == {k \in 1..Len(data.qaPairs) : data.qaPairs[k].source = "generated_distractor"}

\* C17: incorrectAnswerCount of a compiled Dataset is the number of its
\* pairs whose source is 'generated_distractor'.
C17_IncorrectCountIsDistractors ==
    \A r \in RunIds : JustEnded(r, "done") =>
        processedData[1].incorrectAnswerCount = Cardinality(Distractors(processedData[1]))

\* a Dataset with distractors, fewer than the pairs the prompt listed
C17_Witness ==
    \E r \in RunIds :
        /\ JustEnded(r, "done")
        /\ processedData[1].incorrectAnswerCount = 1
        /\ Len(PairsToProcess(runs[r].allPairs)) > 1

(* ---- C18 ---- *)
ListedQuestions(r) ==
    {PairsToProcess(runs[r].allPairs)[j].question : j \in 1..Len(PairsToProcess(runs[r].allPairs))}

\* C18: every distractor of a Complete run is marked incorrect, is tagged
\* 'generated_distractor' and has the question of one of the pairs that
\* were sent to the synthesizer, whatever the reply said.
C18_DistractorsReuseQuestions ==
    \A r \in RunIds : JustEnded(r, "done") =>
        \A k \in 1..Len(runs[r].incorrectPairs) :
            /\ runs[r].incorrectPairs[k].isCorrect = FALSE
            /\ runs[r].incorrectPairs[k].source = "generated_distractor"
            /\ runs[r].incorrectPairs[k].question \in ListedQuestions(r)

(* ---- C19 ---- *)
\* C19: the synthesizer is given the first 5 correct pairs only and yields
\* at most one distractor for each: the distractors of a run are no more
\* than min(5, number of correct pairs).
C19_AtMostOnePerListedPair ==
    \A r \in RunIds : JustEnded(r, "done") =>
        /\ Len(PairsToProcess(runs[r].allPairs)) = Min(DistractorCap, Len(runs[r].allPairs))
        /\ Len(runs[r].incorrectPairs) <= Min(DistractorCap, Len(runs[r].allPairs))

(* ---- C20 ---- *)
\* C20: generateIncorrectAnswers called with no correct pair returns the
\* empty list and sends no request.
C20_NoPairsNoRequest ==
    (svc.job = "distractors" /\ Len(svc.correctPairs) = 0 /\ svc.pc # "todo")
    => /\ svc.pc = "returned"
       /\ svc.result = <<>>
       /\ svc.requests = 0

\* the call with no pair has returned
C20_Witness ==
    svc.job = "distractors" /\ Len(svc.correctPairs) = 0 /\ svc.pc = "returned"

(* ---- C21 ---- *)
\* the Dataset entry is the pair as its stage returned it
SamePair(entry, pair) ==
    entry.user = pair.question /\ entry.model = pair.answer /\ entry.isCorrect = pair.isCorrect

\* the three lists of a run in the order of compilation
StageLists(r) == runs[r].qaPairs \o runs[r].syntheticPairs \o runs[r].incorrectPairs

\* C21: the qaPairs of the Dataset of a Complete run are the grounded pairs,
\* then the synthetic pairs, then the distractors, each list in the order
\* its stage returned it, with nothing reordered, repeated or left out.
C21_DatasetIsConcatenation ==
    \A r \in RunIds : JustEnded(r, "done") =>
        /\ Len(processedData[1].qaPairs) = Len(StageLists(r))
        /\ \A k \in 1..Len(StageLists(r)) : SamePair(processedData[1].qaPairs[k], StageLists(r)[k])

\* a Dataset of several grounded pairs, a synthetic pair and distractors
C21_Witness ==
    \E r \in RunIds :
        /\ JustEnded(r, "done")
        /\ Len(runs[r].qaPairs) > 1
        /\ Len(runs[r].syntheticPairs) > 0
        /\ Len(runs[r].incorrectPairs) > 1

(* ---- C23 ---- *)
\* number of requests the run in slot r has sent for a stage
Requests(r, stage) ==
    Cardinality({k \in 1..Len(runs[r].log) : runs[r].log[k] = <<"issue", stage>>})

SubBatches(n) == (n + batchSize - 1) \div batchSize

\* the pairs (0-based positions) the k-th request carries, k from 0
SubBatch(k, n) == {p \in 0..(n - 1) : batchSize * k <= p /\ p <= Min(batchSize * k + batchSize - 1, n - 1)}

\* C24: for N >= 1 pairs validateQAPairs sends ceil(N/5) requests, the k-th
\* (from 0) carrying the consecutive pairs 5k .. min(5k+4, N-1): every pair
\* goes out in one sub-batch and no sub-batch has more than 5 pairs.
C24_SubBatchesOfFive ==
    \A r \in RunIds :
        LET n == Len(runs[r].allPairs)
            sent == Requests(r, "validation")
        IN /\ runs[r].pc = "validating" =>
                 /\ n >= 1 /\ sent = Len(runs[r].valLog) + 1
                 /\ sent <= SubBatches(n)
                 \* the request in flight carries sub-batch sent - 1
                 /\ runs[r].i = batchSize * (sent - 1)
                 /\ {p \in 0..(n - 1) : runs[r].i <= p /\ p < runs[r].i + BatchLen(runs[r].i, n)}
                       = SubBatch(sent - 1, n)
                 /\ Cardinality(SubBatch(sent - 1, n)) \in 1..batchSize
           /\ ValidationDone(r) =>
                 /\ sent = SubBatches(n)
                 /\ \A p \in 0..(n - 1) :
                       Cardinality({k \in 0..(sent - 1) : p \in SubBatch(k, n)}) = 1

\* more pairs than one sub-batch holds: validation took a second request,
\* for the pairs left over
C24_Witness ==
    \E r \in RunIds :
        /\ ValidationDone(r)
        /\ Len(runs[r].allPairs) > batchSize
        /\ Requests(r, "validation") = 2
        /\ Len(runs[r].allPairs) % batchSize # 0

(* ---- C25 ---- *)
\* the reply to a sub-batch of n pairs is an array that lists each of its
\* items once, in whatever order
ListsEachItemOnce(reply, n) ==
    /\ reply.kind = "array"
    /\ Len(reply.entries) = n
    /\ {reply.entries[j].index : j \in 1..n} = 1..n

\* C25: the entry of a validation reply that carries the 1-based index k,
\* for the sub-batch that starts at offset b, becomes the result at absolute
\* position b + k - 1 whatever its place in the reply (stated for the first
\* sub-batch, b = 0, and a reply that lists every item once).
C25_IndexRemapped ==
    \A r \in RunIds : ValidationDone(r) =>
        LET reply == runs[r].valLog[1]
            n == BatchLen(0, Len(runs[r].allPairs))
        IN ListsEachItemOnce(reply, n) =>
              \A e \in Range(reply.entries) :
                  runs[r].allResults[0 + e.index] = JudgedResult(0 + e.index - 1, e)

(* ---- C26 ---- *)
\* pair k (from 1) carries the verdict of result k
AnnotatedBy(pair, res) ==
    /\ pair.validationStatus = (IF res.isValid THEN "validated" ELSE "rejected")
    /\ pair.validationConfidence = res.confidence

\* C26: once validation is over, generated pair i is 'validated' when
\* result i has isValid = true and 'rejected' otherwise, with result i's
\* confidence; so every grounded or synthetic pair of a Complete Dataset
\* has one of the two statuses.
C26_EveryPairAnnotated ==
    \A r \in RunIds :
        /\ ValidationDone(r) =>
              \A k \in 1..Len(runs[r].allPairs) :
                  /\ k <= Len(runs[r].allResults)
                  /\ AnnotatedBy(runs[r].allPairs[k], runs[r].allResults[k])
        /\ JustEnded(r, "done") =>
              \A k \in 1..Len(Generated(r)) :
                  processedData[1].qaPairs[k].validationStatus \in {"validated", "rejected"}

(* ---- C27 ---- *)
\* the distractor request of the run in slot r has left
DistractorsRequested(r) == Requests(r, "distractors") > 0

\* C27: no pair the validator rejected is among the pairs sent to the
\* DistractorSynthesizer.
C27_NoRejectedPairSent ==
    \A r \in RunIds : DistractorsRequested(r) =>
        \A k \in 1..Len(PairsToProcess(runs[r].allPairs)) :
            PairsToProcess(runs[r].allPairs)[k].validationStatus # "rejected"

(* ---- C28 ---- *)
\* C28: every validationConfidence a pair of the Dataset carries is within
\* [0, 1] (0 .. 100 in hundredths), whatever accuracy the judge replied.
C28_ConfidenceInUnitRange ==
    \A r \in RunIds : JustEnded(r, "done") =>
        \A k \in 1..Len(processedData[1].qaPairs) :
            processedData[1].qaPairs[k].validationConfidence # NoNum
            => processedData[1].qaPairs[k].validationConfidence \in 0..100

(* ---- C29 ---- *)
\* what both statements of C29 share: one response per request, an upstream
\* call only for a POST with a key and a body, and the fixed answers
ProxyAnswers ==
    /\ proxy.pc # "threw"
    /\ Len(proxy.responses) <= 1
    /\ proxy.pc = "responded" <=> Len(proxy.responses) = 1
    /\ proxy.upstreamCalls <= 1
    /\ proxy.upstreamCalls = 1 =>
          (proxy.httpMethod = "POST" /\ proxy.hasKey /\ proxy.body \notin {"null", "empty"})
    /\ proxy.pc = "responded" =>
          /\ proxy.httpMethod = "OPTIONS" => proxy.responses = <<200>>
          /\ proxy.httpMethod \notin {"OPTIONS", "POST"} => proxy.responses = <<405>>
          /\ (proxy.httpMethod = "POST" /\ ~proxy.hasKey) => proxy.responses = <<500>>
          /\ (proxy.httpMethod = "POST" /\ proxy.hasKey /\ proxy.body \in {"null", "empty"})
                => proxy.responses = <<400>>
          /\ ~(proxy.httpMethod = "POST" /\ proxy.hasKey /\ proxy.body \notin {"null", "empty"})
                => proxy.upstreamCalls = 0

\* the upstream answered with a status that is not OK
UpstreamNotOk == proxy.upstream # 0 /\ ~Ok(proxy.upstream)

\* C29 as stated: each proxy handler answers a request with one response
\* and never throws, calls upstream only for a POST with a key and a body,
\* answers OPTIONS with 200, other methods with 405, a missing key with 500,
\* a missing body with 400, and passes an upstream status that is not OK
\* through as the status of its response.
C29_ProxyPassesStatusThrough ==
    /\ ProxyAnswers
    /\ (proxy.pc = "responded" /\ UpstreamNotOk) => proxy.responses = <<proxy.upstream>>

\* C29, amended: the same, except that the upstream status that is not OK
\* is passed through when the upstream error body could be read, and the
\* response is 500 when reading it failed.
C29_ProxyPassesStatusWhenRead ==
    /\ ProxyAnswers
    /\ (proxy.pc = "responded" /\ UpstreamNotOk) =>
          proxy.responses = <<IF proxy.read = "failed" THEN 500 ELSE proxy.upstream>>

\* the upstream answered 429 and the handler passed it on
C29_Witness ==
    /\ proxy.pc = "responded"
    /\ proxy.upstreamCalls = 1
    /\ proxy.upstream = 429
    /\ proxy.responses = <<429>>

(* ---- C22 ---- *)
\* the two runs were given the same gapFilling and appendSources as well
SameFlags == twin.started /\ twin.flags[1] = twin.flags[2]

\* C22: two runs given the same files, urls and options and the same
\* replies, in hooks with whatever earlier history, are at the same point
\* after every step, have made the same requests, have passed the same
\* values to setProgress and to setCurrentStep, show the same progress,
\* step, error and isProcessing, and publish the same Dataset when they
\* complete.
C22_SameInputsSameRun ==
    SameFlags =>
        LET a == twin.hooks[1]
            b == twin.hooks[2]
        IN /\ a.run.pc = b.run.pc
           /\ a.run.log = b.run.log
           /\ a.seq = b.seq
           /\ a.steps = b.steps
           /\ a.ui.progress = b.ui.progress
           /\ a.ui.currentStep = b.ui.currentStep
           /\ a.ui.isProcessing = b.ui.isProcessing
           /\ a.ui.error = b.ui.error
           /\ a.run.pc = "done" => a.ui.processedData = b.ui.processedData

\* both runs Complete with several pairs, the second in a hook that held
\* the Dataset of an earlier run, both with the gap-filling step
C22_Witness ==
    /\ SameFlags /\ twin.flags[1].gap
    /\ twin.hooks[1].run.pc = "done" /\ twin.hooks[2].run.pc = "done"
    /\ twin.hooks[2].run.dataAtStart # NoData
    /\ Len(twin.hooks[1].ui.processedData[1].qaPairs) > 1
    /\ twin.hooks[2].ui.processedData # twin.hooks[2].run.dataAtStart

(* ---- C30 ---- *)
\* C30: provided every request is answered (or fails) and every timer
\* fires, a run that was started reaches Complete or Failed, with
\* isProcessing false when it does.
C30_RunsTerminate ==
    \A r \in RunIds : Alive(r) ~> (runs[r].pc \in {"done", "failed"} /\ ~isProcessing)

\* a run that took two validation requests has ended and left
\* isProcessing false
C30_Witness ==
    \E r \in RunIds :
        /\ JustEnded(r, "done")
        /\ ~isProcessing
        /\ Len(runs[r].valLog) = SubBatches(Len(runs[r].allPairs))
        /\ Len(runs[r].valLog) > 1

(* ---- C31 ---- *)
\* C31: with one run at a time, whenever progress is 100 a Dataset is
\* published, error is null and currentStep is the completion label; a run
\* that has just failed never leaves progress at 100.
C31_HundredMeansComplete ==
    /\ progress = 100 =>
          /\ processedData # NoData
          /\ error = NullErr
          /\ currentStep = StepComplete
    /\ \A r \in RunIds : JustEnded(r, "failed") => progress # 100

\* a run has just published its Dataset and shows progress 100
C31_Witness ==
    \E r \in RunIds :
        /\ JustEnded(r, "done")
        /\ progress = 100
        /\ currentStep = StepComplete
        /\ processedData # NoData

(* ---- C32 ---- *)
\* the places of a Dataset whose pair is marked correct
MarkedCorrect(data) == {k \in 1..Len(data.qaPairs) : data.qaPairs[k].isCorrect}

\* C32: in every published Dataset the two counts add up to the length of
\* qaPairs, correctAnswerCount is the number of pairs marked correct, and a
\* pair the validator rejected is among the pairs marked correct.
C32_CountsPartitionPairs ==
    processedData # NoData =>
        /\ processedData[1].correctAnswerCount + processedData[1].incorrectAnswerCount
              = Len(processedData[1].qaPairs)
        /\ processedData[1].correctAnswerCount = Cardinality(MarkedCorrect(processedData[1]))
        /\ \A k \in 1..Len(processedData[1].qaPairs) :
              processedData[1].qaPairs[k].validationStatus = "rejected" => k \in MarkedCorrect(processedData[1])

\* a published Dataset with a rejected pair and a distractor
C32_Witness ==
    /\ processedData # NoData
    /\ processedData[1].incorrectAnswerCount > 0
    /\ processedData[1].correctAnswerCount > 1
    /\ \E k \in 1..Len(processedData[1].qaPairs) : processedData[1].qaPairs[k].validationStatus = "rejected"

(* ---- C33 ---- *)
\* the two runs were given different gapFilling or appendSources
DifferentFlags == twin.started /\ twin.flags[1] # twin.flags[2]

\* the labels of the two optional steps
OptionalSteps == {StepGaps, StepSources}

WithoutOptionalSteps(steps) == SelectSeq(steps, LAMBDA label : label \notin OptionalSteps)

Ended(h) == h.run.pc \in {"done", "failed"}

\* C33: two runs given the same files, urls and replies but different
\* gapFilling or appendSources make the same requests in the same order,
\* and when both have ended they have passed the same values to
\* setProgress, end the same way with the same error and, if Complete,
\* the same Dataset; the labels they passed to setCurrentStep differ in
\* the labels of the two optional steps only, which are shown at progress
\* 25.
C33_FlagsDoNotInfluence ==
    DifferentFlags =>
        LET a == twin.hooks[1]
            b == twin.hooks[2]
        IN /\ IsPrefix(a.run.log, b.run.log) \/ IsPrefix(b.run.log, a.run.log)
           /\ a.run.pc = b.run.pc => a.run.log = b.run.log /\ a.run.invoked = b.run.invoked
           /\ \A k \in 1..2 : twin.hooks[k].ui.currentStep \in OptionalSteps
                                 => twin.hooks[k].ui.progress = 25
           /\ (Ended(a) /\ Ended(b)) =>
                 /\ a.run.pc = b.run.pc
                 /\ a.seq = b.seq
                 /\ WithoutOptionalSteps(a.steps) = WithoutOptionalSteps(b.steps)
                 /\ a.ui.error = b.ui.error
                 /\ a.ui.progress = b.ui.progress
                 /\ a.ui.currentStep = b.ui.currentStep
                 /\ a.run.pc = "done" => a.ui.processedData = b.ui.processedData

\* a run with both optional steps and a run with neither have both
\* published a Dataset with distractors, after different step labels
C33_Witness ==
    /\ DifferentFlags
    /\ twin.flags[1].gap /\ twin.flags[1].app
    /\ ~twin.flags[2].gap /\ ~twin.flags[2].app
    /\ twin.hooks[1].run.pc = "done" /\ twin.hooks[2].run.pc = "done"
    /\ twin.hooks[1].steps # twin.hooks[2].steps
    /\ twin.hooks[1].ui.processedData[1].incorrectAnswerCount > 0
====
